---- MODULE Spec2Model ----
(***************************************************************************)
(* Bulb AI: the personality core (PersonalityStorage, PersonalityUpdater,  *)
(* ConnectionManager) as state machines.                                   *)
(*                                                                         *)
(* Numbers.  The source computes on IEEE-754 doubles.  The model keeps a   *)
(* finite significand: every number is an integer count of hundredths      *)
(* (0.7 is 70, 1 is One) and every product is rounded to the nearest       *)
(* hundredth, the way a double rounds to its nearest representable value.  *)
(* Sums and differences of hundredths are exact.                           *)
(***************************************************************************)
EXTENDS Integers, Sequences, FiniteSets, TLC

VARIABLES
    templates,          \* PersonalityStorage.templates : name -> template object (a heap address)
    heap,               \* the template objects: address -> {baseTraits, mood, relationships}
    personalities,      \* PersonalityStorage.personalities : agentId -> Personality
    emotionalMemory,    \* PersonalityUpdater.emotionalMemory : agentId -> sequence of events
    connections,        \* ConnectionManager.connections : source -> (target -> ConnectionStrength)
    interactionHistory, \* ConnectionManager.interactionHistory : key -> sequence of interactions
    rules,              \* ConnectionManager.rules : ordered rule list
    listeners,          \* EventEmitter listener arrays, per topic; TRUE is a listener that throws
    last,               \* the last call: operation, argument, topics emitted, listeners run, outcome
    socket,             \* NetworkManager.socket : 0 for null, or the number of a WebSocket
    messageQueue,       \* NetworkManager.messageQueue
    reconnectAttempts,  \* NetworkManager.reconnectAttempts
    heartbeatInterval,  \* NetworkManager.heartbeatInterval : 0, or the id of the last interval set
    sockets,            \* the WebSockets created so far: number -> readyState
    wire,               \* what socket.send() was given, in order: <<socket, message>>
    intervals,          \* the ids of the window intervals set and not cleared
    timeouts,           \* the handleReconnect calls waiting in their setTimeout
    flushing,           \* an onopen handler is inside the loop of flushMessageQueue
    reconnects,         \* connect() calls made by handleReconnect since the last onopen
    systems,            \* GameLoop.systems
    isRunning,          \* GameLoop.isRunning
    frameCount,         \* GameLoop.frameCount
    rafId,              \* GameLoop.rafId
    requested,          \* the ids of the animation frame requests not yet run or cancelled
    awaiting,           \* the gameLoop calls inside `await system(..)`: id -> systems still to run
    rafCount            \* animation frame requests made so far (the last id given out)

storeVars == <<templates, heap, personalities>>
connVars == <<connections, interactionHistory, rules>>
netVars == <<socket, messageQueue, reconnectAttempts, heartbeatInterval, sockets, wire,
             intervals, timeouts, flushing, reconnects>>
loopVars == <<systems, isRunning, frameCount, rafId, requested, awaiting, rafCount>>

vars == <<templates, heap, personalities, emotionalMemory,
          connections, interactionHistory, rules, listeners, last, netVars, loopVars>>

----------------------------------------------------------------------------
(* Arithmetic on hundredths *)

One == 100

Max(a, b) == IF a >= b THEN a ELSE b
Min(a, b) == IF a <= b THEN a ELSE b
Abs(a) == IF a >= 0 THEN a ELSE -a

\* n/d rounded to the nearest integer, ties away from zero (d > 0)
Round(n, d) == IF n >= 0 THEN (2 * n + d) \div (2 * d) ELSE -((2 * (-n) + d) \div (2 * d))

\* the product of two numbers given in hundredths, in hundredths
Mul(a, b) == Round(a * b, One)

\* the empty object literal {}
EmptyObj == [k \in {} |-> 0]

\* Object.assign(target, source) for plain records
Assign(target, source) ==
    [f \in DOMAIN target \cup DOMAIN source |->
        IF f \in DOMAIN source THEN source[f] ELSE target[f]]

\* Map.set(k, v)
MapSet(m, k, v) == [x \in DOMAIN m \cup {k} |-> IF x = k THEN v ELSE m[x]]

\* Map.delete(k)
MapDelete(m, k) == [x \in DOMAIN m \ {k} |-> m[x]]

----------------------------------------------------------------------------
(* EventEmitter: emit(topic) calls the listeners of the topic in            *)
(* registration order; a listener that throws ends the dispatch and the    *)
(* exception leaves emit.                                                   *)

Topics == {"personalityCreated", "traitUpdated", "moodUpdated",
           "connected", "disconnected", "connectionUpdated"}

Throwers(topic) == {i \in 1..Len(listeners[topic]) : listeners[topic][i]}

EmitThrows(topic) == Throwers(topic) # {}

\* how many listeners of the topic emit() gets to call
EmitInvoked(topic) ==
    IF EmitThrows(topic)
    THEN CHOOSE i \in Throwers(topic) : \A j \in Throwers(topic) : i <= j
    ELSE Len(listeners[topic])

\* the value of a call that returns nothing
Void == <<>>

\* the record of a call that reached emit(topic) as its last statement before
\* returning result; when a listener throws, the call does not return
Emitted(op, arg, topic, result) ==
    [op |-> op, arg |-> arg, emitted |-> <<topic>>,
     invoked |-> EmitInvoked(topic), threw |-> EmitThrows(topic),
     result |-> IF EmitThrows(topic) THEN Void ELSE result]

\* the record of a call that returned result without emitting
Silent(op, arg, result) ==
    [op |-> op, arg |-> arg, emitted |-> <<>>, invoked |-> 0, threw |-> FALSE,
     result |-> result]

----------------------------------------------------------------------------
(* PersonalityStorage *)

\* the mood of a record created without a template mood
DefaultMood == [happiness |-> 50, energy |-> 50, stress |-> 50, dominance |-> 50]

\* the two templates of initializeTemplates (trait name -> trait value)
FriendlyTemplate ==
    [baseTraits |-> [openness |-> 70, empathy |-> 80, sociability |-> 90],
     mood |-> [happiness |-> 70, energy |-> 60, stress |-> 30, dominance |-> 40]]

AnalyticalTemplate ==
    [baseTraits |-> [logic |-> 90, precision |-> 80, curiosity |-> 70],
     mood |-> [happiness |-> 50, energy |-> 60, stress |-> 40, dominance |-> 50]]

\* Math.max(0, Math.min(1, value))
Clamp01(value) == Max(0, Min(One, value))

\* added template objects take the addresses 3 .. 2 + MaxAddedTemplates
MaxAddedTemplates == 1

Addresses == 1..(2 + MaxAddedTemplates)

InitStore ==
    /\ templates = [n \in {"friendly", "analytical"} |-> IF n = "friendly" THEN 1 ELSE 2]
    /\ heap = [o \in {1, 2} |-> IF o = 1 THEN FriendlyTemplate ELSE AnalyticalTemplate]
    /\ personalities = EmptyObj

\* the template objects still reachable from the template map or from a record
Reachable(tpls, pers) ==
    {tpls[n] : n \in DOMAIN tpls}
    \cup UNION {{pers[a].baseTraits[n] : n \in DOMAIN pers[a].baseTraits} : a \in DOMAIN pers}
    \cup {pers[a].mood.shared : a \in {x \in DOMAIN pers : "shared" \in DOMAIN pers[x].mood}}

Collect(h, tpls, pers) == [o \in DOMAIN h \cap Reachable(tpls, pers) |-> h[o]]

\* personality.mood, through the reference, in the heap h
MoodIn(h, personality) ==
    IF "shared" \in DOMAIN personality.mood
    THEN h[personality.mood.shared].mood
    ELSE personality.mood.own

\* the values of personality.baseTraits, through the references, in the heap h
BaseTraitsIn(h, personality) ==
    [n \in DOMAIN personality.baseTraits |-> h[personality.baseTraits[n]].baseTraits[n]]

\* what a reader of the record sees
ViewIn(h, personality) ==
    [id |-> personality.id,
     baseTraits |-> BaseTraitsIn(h, personality),
     adaptiveTraits |-> personality.adaptiveTraits,
     mood |-> MoodIn(h, personality),
     relationships |-> personality.relationships]

MoodOf(personality) == MoodIn(heap, personality)

View(personality) == ViewIn(heap, personality)

NoTemplate == "undefined"

\* the record createPersonality builds: the spread of the template object over
\* the defaults shares the template's mood object and its trait objects
NewPersonality(agentId, template) ==
    IF template # NoTemplate /\ template \in DOMAIN templates
    THEN LET o == templates[template]
             templateData == heap[o]
         IN [id |-> agentId,
             baseTraits |-> IF "baseTraits" \in DOMAIN templateData
                            THEN [n \in DOMAIN templateData.baseTraits |-> o]
                            ELSE EmptyObj,
             adaptiveTraits |-> EmptyObj,
             mood |-> IF "mood" \in DOMAIN templateData
                      THEN [shared |-> o]
                      ELSE [own |-> DefaultMood],
             relationships |-> IF "relationships" \in DOMAIN templateData
                               THEN templateData.relationships
                               ELSE EmptyObj]
    ELSE [id |-> agentId, baseTraits |-> EmptyObj, adaptiveTraits |-> EmptyObj,
          mood |-> [own |-> DefaultMood], relationships |-> EmptyObj]

createPersonality(agentId, template) ==
    LET personality == NewPersonality(agentId, template)
        stored == MapSet(personalities, agentId, personality)
    IN /\ personalities' = stored
       /\ heap' = Collect(heap, templates, stored)
       /\ last' = Emitted("createPersonality", <<agentId, template>>,
                          "personalityCreated", View(personality))
       /\ UNCHANGED <<templates, emotionalMemory, connVars, listeners, netVars, loopVars>>

getPersonality(agentId) == View(personalities[agentId])

\* the trait written and announced whether or not the map has it
updateTraitUnguarded(agentId, traitName, value, isAdaptive) ==
    IF agentId \notin DOMAIN personalities
    THEN /\ last' = Silent("updateTrait", <<agentId, traitName, value, isAdaptive>>, Void)
         /\ UNCHANGED <<storeVars, emotionalMemory, connVars, listeners, netVars, loopVars>>
    ELSE LET personality == personalities[agentId]
         IN /\ IF isAdaptive
               THEN /\ personalities' =
                         [personalities EXCEPT
                             ![agentId].adaptiveTraits = MapSet(@, traitName, Clamp01(value))]
                    /\ heap' = heap
               ELSE /\ heap' = IF traitName \in DOMAIN personality.baseTraits
                               THEN [heap EXCEPT ![personality.baseTraits[traitName]]
                                                     .baseTraits[traitName] = Clamp01(value)]
                               ELSE heap
                    /\ personalities' = personalities
            /\ last' = Emitted("updateTrait", <<agentId, traitName, value, isAdaptive>>,
                               "traitUpdated", Void)
            /\ UNCHANGED <<templates, emotionalMemory, connVars, listeners, netVars, loopVars>>

updateTrait(agentId, traitName, value, isAdaptive) ==
    IF agentId \notin DOMAIN personalities
    THEN /\ last' = Silent("updateTrait", <<agentId, traitName, value, isAdaptive>>, Void)
         /\ UNCHANGED <<storeVars, emotionalMemory, connVars, listeners, netVars, loopVars>>
    ELSE LET personality == personalities[agentId]
             traitMap == IF isAdaptive THEN personality.adaptiveTraits
                         ELSE personality.baseTraits
         IN IF traitName \in DOMAIN traitMap
            THEN /\ IF isAdaptive
                    THEN /\ personalities' =
                              [personalities EXCEPT
                                  ![agentId].adaptiveTraits[traitName] = Clamp01(value)]
                         /\ heap' = heap
                    ELSE /\ heap' = [heap EXCEPT
                                  ![traitMap[traitName]].baseTraits[traitName] = Clamp01(value)]
                         /\ personalities' = personalities
                 /\ last' = Emitted("updateTrait", <<agentId, traitName, value, isAdaptive>>,
                                    "traitUpdated", Void)
                 /\ UNCHANGED <<templates, emotionalMemory, connVars, listeners, netVars, loopVars>>
            ELSE /\ last' = Silent("updateTrait", <<agentId, traitName, value, isAdaptive>>, Void)
                 /\ UNCHANGED <<storeVars, emotionalMemory, connVars, listeners, netVars, loopVars>>

\* the property names every object literal inherits from Object.prototype
ObjectPrototype ==
    {"constructor", "hasOwnProperty", "isPrototypeOf", "propertyIsEnumerable",
     "toLocaleString", "toString", "valueOf"}

\* key in obj: the own properties and the inherited ones
In(key, obj) == key \in DOMAIN obj \/ key \in ObjectPrototype

\* the mood after Object.entries(moodUpdates).forEach(...): the assignment
\* to a name that is only inherited makes it an own property
UpdatedMood(mood, moodUpdates) ==
    [key \in DOMAIN mood \cup {k \in DOMAIN moodUpdates : In(k, mood)} |->
        IF key \in DOMAIN moodUpdates THEN Clamp01(moodUpdates[key]) ELSE mood[key]]

updateMood(agentId, moodUpdates) ==
    IF agentId \notin DOMAIN personalities
    THEN /\ last' = Silent("updateMood", <<agentId, moodUpdates>>, Void)
         /\ UNCHANGED <<storeVars, emotionalMemory, connVars, listeners, netVars, loopVars>>
    ELSE LET personality == personalities[agentId]
             mood == UpdatedMood(MoodOf(personality), moodUpdates)
         IN /\ IF "shared" \in DOMAIN personality.mood
               THEN /\ heap' = [heap EXCEPT ![personality.mood.shared].mood = mood]
                    /\ personalities' = personalities
               ELSE /\ personalities' = [personalities EXCEPT ![agentId].mood.own = mood]
                    /\ heap' = heap
            /\ last' = Emitted("updateMood", <<agentId, moodUpdates>>, "moodUpdated", Void)
            /\ UNCHANGED <<templates, emotionalMemory, connVars, listeners, netVars, loopVars>>

\* the caller passes a fresh object literal
addTemplate(name, template) ==
    LET free == Addresses \ DOMAIN Collect(heap, MapDelete(templates, name), personalities)
        o == CHOOSE x \in free : \A y \in free : x <= y
        tpls == MapSet(templates, name, o)
    IN /\ free # {}
       /\ templates' = tpls
       /\ heap' = Collect(MapSet(heap, o, template), tpls, personalities)
       /\ last' = Silent("addTemplate", <<name>>, Void)
       /\ UNCHANGED <<personalities, emotionalMemory, connVars, listeners, netVars, loopVars>>

getTemplates == DOMAIN templates

----------------------------------------------------------------------------
(* PersonalityUpdater *)

decayRate == 10
adaptationRate == 5

\* the challenge delta taken from the valence
calculateTraitUpdatesByValence(personality, event) ==
    CASE event.type = "socialInteraction" ->
            [n \in {"sociability"} |-> Mul(event.valence, adaptationRate)]
      [] event.type = "challenge" ->
            [n \in {"resilience"} |-> Mul(event.valence, adaptationRate)]
      [] event.type = "learning" ->
            [n \in {"curiosity"} |-> Mul(event.valence, adaptationRate)]
      [] OTHER -> EmptyObj

calculateTraitUpdates(personality, event) ==
    CASE event.type = "socialInteraction" ->
            [n \in {"sociability"} |-> Mul(event.valence, adaptationRate)]
      [] event.type = "challenge" ->
            [n \in {"resilience"} |-> Mul(event.intensity, adaptationRate)]
      [] event.type = "learning" ->
            [n \in {"curiosity"} |-> Mul(event.valence, adaptationRate)]
      [] OTHER -> EmptyObj

calculateMoodUpdates(personality, event) ==
    LET happiness == Mul(event.valence, event.intensity)
        energy == Mul(event.intensity, IF event.valence > 0 THEN One ELSE -50)
        stress == Mul(event.intensity, IF event.valence < 0 THEN One ELSE -50)
    IN IF event.type = "conflict"
       THEN [happiness |-> happiness, energy |-> energy,
             stress |-> Min(One, stress + 20),
             dominance |-> IF event.valence > 0 THEN 10 ELSE -10]
       ELSE [happiness |-> happiness, energy |-> energy, stress |-> stress]

\* the new relationship value left unclamped
calculateRelationshipUpdatesUnclamped(personality, event) ==
    IF event.source # "" /\ event.source # personality.id
    THEN LET currentRelationship ==
                 IF event.source \in DOMAIN personality.relationships
                 THEN personality.relationships[event.source]
                 ELSE 0
             update == Mul(Mul(event.valence, event.intensity), adaptationRate)
         IN [n \in {event.source} |-> currentRelationship + update]
    ELSE EmptyObj

calculateRelationshipUpdates(personality, event) ==
    IF event.source # "" /\ event.source # personality.id
    THEN LET currentRelationship ==
                 IF event.source \in DOMAIN personality.relationships
                 THEN personality.relationships[event.source]
                 ELSE 0
             update == Mul(Mul(event.valence, event.intensity), adaptationRate)
         IN [n \in {event.source} |-> Max(-One, Min(One, currentRelationship + update))]
    ELSE EmptyObj

\* the relationship updates written into the record
processEventApplying(agentId, event) ==
    LET personality == getPersonality(agentId)
        memory == IF personality.id \in DOMAIN emotionalMemory
                  THEN emotionalMemory
                  ELSE MapSet(emotionalMemory, personality.id, <<>>)
        relationshipUpdates == calculateRelationshipUpdates(personality, event)
    IN /\ agentId \in DOMAIN personalities
       /\ emotionalMemory' = MapSet(memory, personality.id, Append(memory[personality.id], event))
       /\ personalities' = [personalities EXCEPT
                               ![agentId].relationships = Assign(@, relationshipUpdates)]
       /\ last' = Silent("processEvent", <<agentId, event>>,
                         [traitUpdates |-> calculateTraitUpdates(personality, event),
                          moodUpdates |-> calculateMoodUpdates(personality, event),
                          relationshipUpdates |-> relationshipUpdates])
       /\ UNCHANGED <<templates, heap, connVars, listeners, netVars, loopVars>>

\* personality is the record as the caller holds it; the record is not written
processEvent(agentId, event) ==
    LET personality == getPersonality(agentId)
        memory == IF personality.id \in DOMAIN emotionalMemory
                  THEN emotionalMemory
                  ELSE MapSet(emotionalMemory, personality.id, <<>>)
    IN /\ agentId \in DOMAIN personalities
       /\ emotionalMemory' = MapSet(memory, personality.id, Append(memory[personality.id], event))
       /\ last' = Silent("processEvent", <<agentId, event>>,
                         [traitUpdates |-> calculateTraitUpdates(personality, event),
                          moodUpdates |-> calculateMoodUpdates(personality, event),
                          relationshipUpdates |-> calculateRelationshipUpdates(personality, event)])
       /\ UNCHANGED <<storeVars, connVars, listeners, netVars, loopVars>>

\* the mood pulled towards 0 instead of the midpoint
decayPersonalityToZero(personality) ==
    [traitUpdates |->
        [name \in DOMAIN personality.adaptiveTraits \cap DOMAIN personality.baseTraits |->
            Mul(personality.baseTraits[name] - personality.adaptiveTraits[name], decayRate)],
     moodUpdates |->
        [key \in DOMAIN personality.mood |-> Mul(0 - personality.mood[key], decayRate)],
     relationshipUpdates |-> EmptyObj]

\* the deltas computed away from the targets
decayPersonalityAway(personality) ==
    [traitUpdates |->
        [name \in DOMAIN personality.adaptiveTraits \cap DOMAIN personality.baseTraits |->
            Mul(personality.adaptiveTraits[name] - personality.baseTraits[name], decayRate)],
     moodUpdates |->
        [key \in DOMAIN personality.mood |-> Mul(personality.mood[key] - 50, decayRate)],
     relationshipUpdates |-> EmptyObj]

decayPersonality(personality) ==
    [traitUpdates |->
        [name \in DOMAIN personality.adaptiveTraits \cap DOMAIN personality.baseTraits |->
            Mul(personality.baseTraits[name] - personality.adaptiveTraits[name], decayRate)],
     moodUpdates |->
        [key \in DOMAIN personality.mood |-> Mul(50 - personality.mood[key], decayRate)],
     relationshipUpdates |-> EmptyObj]

\* Array.prototype.slice(begin)
Slice(array, begin) ==
    LET n == Len(array)
        from == IF begin < 0 THEN Max(n + begin, 0) ELSE Min(begin, n)
    IN SubSeq(array, from + 1, n)

\* limit is <<>> when the argument is left out, and <<k>> when it is k
EmotionalMemoryOf(personalityId, limit) ==
    LET memory == IF personalityId \in DOMAIN emotionalMemory
                  THEN emotionalMemory[personalityId]
                  ELSE <<>>
    IN IF limit # <<>> /\ limit[1] # 0 THEN Slice(memory, -limit[1]) ELSE memory

getEmotionalMemory(personalityId, limit) ==
    /\ last' = Silent("getEmotionalMemory", <<personalityId, limit>>,
                      EmotionalMemoryOf(personalityId, limit))
    /\ UNCHANGED <<emotionalMemory, storeVars, connVars, listeners, netVars, loopVars>>

\* every log dropped
clearEmotionalMemoryAll(personalityId) ==
    /\ emotionalMemory' = EmptyObj
    /\ last' = Silent("clearEmotionalMemory", <<personalityId>>, Void)
    /\ UNCHANGED <<storeVars, connVars, listeners, netVars, loopVars>>

clearEmotionalMemory(personalityId) ==
    /\ emotionalMemory' = MapDelete(emotionalMemory, personalityId)
    /\ last' = Silent("clearEmotionalMemory", <<personalityId>>, Void)
    /\ UNCHANGED <<storeVars, connVars, listeners, netVars, loopVars>>

----------------------------------------------------------------------------
(* The driver: the caller that holds the records and applies the updates *)

\* personality.adaptiveTraits.set(name, trait) on the record the store returned
adaptTrait(agentId, traitName, value) ==
    /\ agentId \in DOMAIN personalities
    /\ personalities' = [personalities EXCEPT
                            ![agentId].adaptiveTraits = MapSet(@, traitName, value)]
    /\ last' = Silent("adaptTrait", <<agentId, traitName, value>>, Void)
    /\ UNCHANGED <<templates, heap, emotionalMemory, connVars, listeners, netVars, loopVars>>

\* n copies of topic
Repeat(topic, n) == [i \in 1..n |-> topic]

\* one decay tick: decayPersonality on the current record, then every delta
\* added to the current value through updateTrait(.., true) and updateMood
decayTick(agentId) ==
    LET personality == getPersonality(agentId)
        update == decayPersonality(personality)
        names == DOMAIN update.traitUpdates
        adapted(ns) ==
            [n \in DOMAIN personality.adaptiveTraits |->
                IF n \in ns
                THEN Clamp01(personality.adaptiveTraits[n] + update.traitUpdates[n])
                ELSE personality.adaptiveTraits[n]]
        mood == UpdatedMood(personality.mood,
                    [k \in DOMAIN update.moodUpdates |->
                        personality.mood[k] + update.moodUpdates[k]])
        shared == "shared" \in DOMAIN personalities[agentId].mood
    IN /\ agentId \in DOMAIN personalities
       /\ IF names # {} /\ EmitThrows("traitUpdated")
          THEN \E first \in names :
                  /\ personalities' = [personalities EXCEPT
                                          ![agentId].adaptiveTraits = adapted({first})]
                  /\ heap' = heap
                  /\ last' = [op |-> "decayTick", arg |-> <<agentId>>,
                              emitted |-> <<"traitUpdated">>,
                              invoked |-> EmitInvoked("traitUpdated"),
                              threw |-> TRUE, result |-> Void]
          ELSE /\ personalities' =
                      [personalities EXCEPT
                          ![agentId].adaptiveTraits = adapted(names),
                          ![agentId].mood = IF shared THEN @ ELSE [own |-> mood]]
               /\ heap' = IF shared
                          THEN [heap EXCEPT ![personalities[agentId].mood.shared].mood = mood]
                          ELSE heap
               /\ last' = [op |-> "decayTick", arg |-> <<agentId>>,
                           emitted |-> Repeat("traitUpdated", Cardinality(names))
                                           \o <<"moodUpdated">>,
                           invoked |-> Cardinality(names) * Len(listeners["traitUpdated"])
                                           + EmitInvoked("moodUpdated"),
                           threw |-> EmitThrows("moodUpdated"),
                           result |-> IF EmitThrows("moodUpdated") THEN Void ELSE update]
       /\ UNCHANGED <<templates, emotionalMemory, connVars, listeners, netVars, loopVars>>

----------------------------------------------------------------------------
(* ConnectionManager *)

\* the conditions with >= and <= for > and <
RuleConditionInclusive(rule, interaction) ==
    CASE rule = "positive" -> interaction.impact.connectionStrength >= 0
      [] rule = "negative" -> interaction.impact.connectionStrength <= 0

\* rule.condition(interaction) of the two default rules and of the rules the
\* caller adds
RuleCondition(rule, interaction) ==
    CASE rule = "positive" -> interaction.impact.connectionStrength > 0
      [] rule = "negative" -> interaction.impact.connectionStrength < 0
      [] rule = "doubling" -> interaction.type = "chat"
      [] rule = "levelling" -> interaction.impact.connectionStrength > 0

\* rule.impact(interaction, current) of the two default rules and of the
\* rules the caller adds
RuleImpact(rule, interaction, current) ==
    CASE rule = "positive" ->
            [trust |-> Min(One, current.trust + interaction.impact.trust),
             familiarity |-> Min(One, current.familiarity + interaction.impact.familiarity),
             value |-> Min(One, current.value + interaction.impact.connectionStrength)]
      [] rule = "negative" ->
            [trust |-> Max(0, current.trust + interaction.impact.trust),
             value |-> Max(-One, current.value + interaction.impact.connectionStrength)]
      [] rule = "doubling" ->
            [value |-> Max(-One, Min(One, 2 * current.value))]
      [] rule = "levelling" ->
            [trust |-> Max(0, current.value), familiarity |-> 0]

\* the first matching rule only
ApplyRulesFirstMatch(rs, interaction, connection) ==
    LET matching == {i \in 1..Len(rs) : RuleCondition(rs[i], interaction)}
        first == CHOOSE i \in matching : \A j \in matching : i <= j
    IN IF matching = {} THEN connection
       ELSE Assign(connection, RuleImpact(rs[first], interaction, connection))

\* rules.filter(condition).forEach(rule => Object.assign(connection, rule.impact(...)))
RECURSIVE ApplyRules(_, _, _)
ApplyRules(rs, interaction, connection) ==
    IF rs = <<>> THEN connection
    ELSE ApplyRules(Tail(rs), interaction,
                    IF RuleCondition(Head(rs), interaction)
                    THEN Assign(connection, RuleImpact(Head(rs), interaction, connection))
                    ELSE connection)

\* initialStrength.f ?? dflt
OrDefault(obj, f, dflt) == IF f \in DOMAIN obj THEN obj[f] ELSE dflt

addRule(rule) ==
    /\ rules' = Append(rules, rule)
    /\ last' = Silent("addRule", <<rule>>, Void)
    /\ UNCHANGED <<connections, interactionHistory, listeners, storeVars, emotionalMemory, netVars, loopVars>>

\* getConnection(sourceId, targetId) !== undefined
hasConnection(sourceId, targetId) ==
    sourceId \in DOMAIN connections /\ targetId \in DOMAIN connections[sourceId]

\* connections.get(sourceId)?.get(targetId), where it is defined
getConnection(sourceId, targetId) == connections[sourceId][targetId]

\* the key with its two ids exchanged
HistoryKeySwapped(sourceId, targetId) == targetId \o "-" \o sourceId

HistoryKey(sourceId, targetId) == sourceId \o "-" \o targetId

\* the given fields laid over the record the pair has, when it has one
connectKeeping(sourceId, targetId, initialStrength, now) ==
    LET outer == IF sourceId \in DOMAIN connections
                 THEN connections
                 ELSE MapSet(connections, sourceId, EmptyObj)
        fresh == [value |-> 0, trust |-> 10, familiarity |-> 0, lastInteraction |-> now]
        base == IF hasConnection(sourceId, targetId)
                THEN getConnection(sourceId, targetId)
                ELSE fresh
        connection == [Assign(base, initialStrength) EXCEPT !.lastInteraction = now]
    IN /\ connections' = MapSet(outer, sourceId, MapSet(outer[sourceId], targetId, connection))
       /\ last' = Emitted("connect", <<sourceId, targetId, initialStrength>>, "connected", Void)
       /\ UNCHANGED <<interactionHistory, rules, listeners, storeVars, emotionalMemory, netVars, loopVars>>

\* now is the value of Date.now()
connect(sourceId, targetId, initialStrength, now) ==
    LET outer == IF sourceId \in DOMAIN connections
                 THEN connections
                 ELSE MapSet(connections, sourceId, EmptyObj)
        connection == [value |-> OrDefault(initialStrength, "value", 0),
                       trust |-> OrDefault(initialStrength, "trust", 10),
                       familiarity |-> OrDefault(initialStrength, "familiarity", 0),
                       lastInteraction |-> now]
    IN /\ connections' = MapSet(outer, sourceId, MapSet(outer[sourceId], targetId, connection))
       /\ last' = Emitted("connect", <<sourceId, targetId, initialStrength>>, "connected", Void)
       /\ UNCHANGED <<interactionHistory, rules, listeners, storeVars, emotionalMemory, netVars, loopVars>>

\* the records of both directions removed
disconnectBoth(sourceId, targetId) ==
    LET without(conns, s, t) == IF s \in DOMAIN conns
                                THEN MapSet(conns, s, MapDelete(conns[s], t))
                                ELSE conns
    IN /\ connections' = without(without(connections, sourceId, targetId), targetId, sourceId)
       /\ last' = Emitted("disconnect", <<sourceId, targetId>>, "disconnected", Void)
       /\ UNCHANGED <<interactionHistory, rules, listeners, storeVars, emotionalMemory, netVars, loopVars>>

disconnect(sourceId, targetId) ==
    /\ connections' = IF sourceId \in DOMAIN connections
                      THEN MapSet(connections, sourceId, MapDelete(connections[sourceId], targetId))
                      ELSE connections
    /\ last' = Emitted("disconnect", <<sourceId, targetId>>, "disconnected", Void)
    /\ UNCHANGED <<interactionHistory, rules, listeners, storeVars, emotionalMemory, netVars, loopVars>>

recordInteraction(interaction) ==
    LET key == HistoryKey(interaction.sourceId, interaction.targetId)
        history == IF key \in DOMAIN interactionHistory
                   THEN interactionHistory
                   ELSE MapSet(interactionHistory, key, <<>>)
        present == hasConnection(interaction.sourceId, interaction.targetId)
        connection == getConnection(interaction.sourceId, interaction.targetId)
        updated == [ApplyRules(rules, interaction, connection)
                        EXCEPT !.lastInteraction = interaction.timestamp]
    IN /\ interactionHistory' = MapSet(history, key, Append(history[key], interaction))
       /\ IF present
          THEN /\ connections' = MapSet(connections, interaction.sourceId,
                                    MapSet(connections[interaction.sourceId],
                                           interaction.targetId, updated))
               /\ last' = Emitted("recordInteraction", interaction, "connectionUpdated", Void)
          ELSE /\ connections' = connections
               /\ last' = Silent("recordInteraction", interaction, Void)
       /\ UNCHANGED <<rules, listeners, storeVars, emotionalMemory, netVars, loopVars>>

\* EventEmitter.on(topic, listener)
on(topic, throws) ==
    /\ listeners' = [listeners EXCEPT ![topic] = Append(@, throws)]
    /\ last' = Silent("on", <<topic, throws>>, Void)
    /\ UNCHANGED <<connVars, storeVars, emotionalMemory, netVars, loopVars>>

----------------------------------------------------------------------------
(* NetworkManager.  The WebSockets and the window timers are the            *)
(* environment: a socket opens or closes, an interval or a timeout fires,   *)
(* and the handler the manager registered runs to its end before anything   *)
(* else does.  flushMessageQueue is the one loop of the class; an onopen    *)
(* handler takes its iterations one at a time, and nothing else runs until  *)
(* the loop is left.                                                        *)

\* the NetworkConfig the manager is constructed with
config == [reconnectAttempts |-> 1]

\* WebSockets created in one run
MaxSockets == 3

\* messages passed to send() in one run and not dropped
MaxMessages == 2

\* everything that is not a field of the NetworkManager or of its environment
notNetVars == <<storeVars, emotionalMemory, connVars, listeners, loopVars>>

InitNet ==
    /\ socket = 0
    /\ messageQueue = <<>>
    /\ reconnectAttempts = 0
    /\ heartbeatInterval = 0
    /\ sockets = <<>>
    /\ wire = <<>>
    /\ intervals = {}
    /\ timeouts = 0
    /\ flushing = FALSE
    /\ reconnects = 0

\* this.socket?.readyState === WebSocket.OPEN
SocketIsOpen == socket # 0 /\ sockets[socket] = "OPEN"

\* the body of connect(): nothing when the current socket is open, a new
\* WebSocket in this.socket otherwise
NewSocket ==
    IF SocketIsOpen
    THEN UNCHANGED <<socket, sockets>>
    ELSE /\ Len(sockets) < MaxSockets
         /\ sockets' = Append(sockets, "CONNECTING")
         /\ socket' = Len(sockets) + 1

networkConnect ==
    /\ ~flushing
    /\ NewSocket
    /\ last' = Silent("NetworkManager.connect", <<>>, Void)
    /\ UNCHANGED <<messageQueue, reconnectAttempts, heartbeatInterval, wire, intervals,
                   timeouts, flushing, reconnects, notNetVars>>

\* the NetworkMessage send() builds; now is the value of Date.now()
Message(type, data, now) == [type |-> type, data |-> data, timestamp |-> now, sender |-> "client"]

\* the second half of send(): the queue and the wire after the message went
\* to the one or the other
Dispatch(queue, sent, message) ==
    IF ~SocketIsOpen
    THEN [messageQueue |-> Append(queue, message), wire |-> sent]
    ELSE [messageQueue |-> queue, wire |-> Append(sent, <<socket, message>>)]

send(type, data, now) ==
    LET out == Dispatch(messageQueue, wire, Message(type, data, now))
    IN /\ ~flushing
       /\ Len(messageQueue) + Len(wire) < MaxMessages
       /\ messageQueue' = out.messageQueue
       /\ wire' = out.wire
       /\ last' = Silent("send", <<type, data>>, Void)
       /\ UNCHANGED <<socket, reconnectAttempts, heartbeatInterval, sockets, intervals,
                      timeouts, flushing, reconnects, notNetVars>>

\* the callback of startHeartbeat's setInterval
heartbeat(id, now) ==
    LET out == Dispatch(messageQueue, wire, Message("heartbeat", now, now))
    IN /\ ~flushing
       /\ id \in intervals
       /\ Len(messageQueue) + Len(wire) < MaxMessages
       /\ messageQueue' = out.messageQueue
       /\ wire' = out.wire
       /\ last' = Silent("heartbeat", <<id>>, Void)
       /\ UNCHANGED <<socket, reconnectAttempts, heartbeatInterval, sockets, intervals,
                      timeouts, flushing, reconnects, notNetVars>>

\* socket.onopen of WebSocket s: the counter reset, startHeartbeat (a new
\* interval, its id kept in heartbeatInterval), and the flush loop entered
onopen(s) ==
    /\ ~flushing
    /\ s \in 1..Len(sockets)
    /\ sockets[s] = "CONNECTING"
    /\ sockets' = [sockets EXCEPT ![s] = "OPEN"]
    /\ reconnectAttempts' = 0
    /\ reconnects' = 0
    /\ heartbeatInterval' = s
    /\ intervals' = intervals \cup {s}
    /\ flushing' = (messageQueue # <<>>)
    /\ last' = Silent("onopen", <<s>>, Void)
    /\ UNCHANGED <<socket, messageQueue, wire, timeouts, notNetVars>>

\* one iteration of the loop of flushMessageQueue: shift(), then send()
flushMessageQueue(now) ==
    LET message == Head(messageQueue)
        out == Dispatch(Tail(messageQueue), wire, Message(message.type, message.data, now))
    IN /\ flushing
       /\ messageQueue' = out.messageQueue
       /\ wire' = out.wire
       /\ flushing' = (out.messageQueue # <<>>)
       /\ last' = Silent("flushMessageQueue", <<message>>, Void)
       /\ UNCHANGED <<socket, reconnectAttempts, heartbeatInterval, sockets, intervals,
                      timeouts, reconnects, notNetVars>>

\* stopHeartbeat(): clearInterval of the id in heartbeatInterval, when not 0
StoppedHeartbeat == intervals \ {heartbeatInterval}

\* socket.onclose of WebSocket s: stopHeartbeat, then handleReconnect up to
\* its await
onclose(s) ==
    /\ ~flushing
    /\ s \in 1..Len(sockets)
    /\ sockets[s] # "CLOSED"
    /\ sockets' = [sockets EXCEPT ![s] = "CLOSED"]
    /\ intervals' = StoppedHeartbeat
    /\ IF reconnectAttempts >= config.reconnectAttempts
       THEN UNCHANGED <<reconnectAttempts, timeouts>>
       ELSE /\ reconnectAttempts' = reconnectAttempts + 1
            /\ timeouts' = timeouts + 1
    /\ last' = Silent("onclose", <<s>>, Void)
    /\ UNCHANGED <<socket, messageQueue, heartbeatInterval, wire, flushing, reconnects,
                   notNetVars>>

\* handleReconnect after its await: the timeout has fired, this.connect()
handleReconnect ==
    /\ ~flushing
    /\ timeouts > 0
    /\ timeouts' = timeouts - 1
    /\ NewSocket
    /\ reconnects' = reconnects + 1
    /\ last' = Silent("handleReconnect", <<>>, Void)
    /\ UNCHANGED <<messageQueue, reconnectAttempts, heartbeatInterval, wire, intervals,
                   flushing, notNetVars>>

\* disconnect(): socket.close() starts the closing handshake of a socket that
\* is connecting or open
networkDisconnect ==
    /\ ~flushing
    /\ intervals' = StoppedHeartbeat
    /\ IF socket # 0
       THEN /\ sockets' = [sockets EXCEPT ![socket] =
                               IF @ \in {"CONNECTING", "OPEN"} THEN "CLOSING" ELSE @]
            /\ socket' = 0
       ELSE UNCHANGED <<socket, sockets>>
    /\ last' = Silent("NetworkManager.disconnect", <<>>, Void)
    /\ UNCHANGED <<messageQueue, reconnectAttempts, heartbeatInterval, wire, timeouts,
                   flushing, reconnects, notNetVars>>

----------------------------------------------------------------------------
(* GameLoop.  The browser is the environment: it runs the callback of an    *)
(* animation frame request, and it settles the promise a gameLoop call is   *)
(* awaiting.  Between the two, start() and stop() can be called.  The test  *)
(* deltaTime >= frameTime is an input of the callback (due).  systems is    *)
(* kept in insertion order, the order a Set is iterated in.                 *)

\* requestAnimationFrame calls in one run
MaxFrames == 4

notLoopVars == <<storeVars, emotionalMemory, connVars, listeners, netVars>>

InitLoop ==
    /\ systems = <<>>
    /\ isRunning = FALSE
    /\ frameCount = 0
    /\ rafId = 0
    /\ requested = {}
    /\ awaiting = EmptyObj
    /\ rafCount = 0

\* this.rafId = requestAnimationFrame(gameLoop)
RequestFrame(pending) ==
    /\ rafCount < MaxFrames
    /\ rafCount' = rafCount + 1
    /\ rafId' = rafCount + 1
    /\ requested' = pending \cup {rafCount + 1}

\* no system is added or removed while a gameLoop call is inside its loop
addSystem(system) ==
    /\ awaiting = EmptyObj
    /\ systems' = IF \E i \in 1..Len(systems) : systems[i] = system
                  THEN systems
                  ELSE Append(systems, system)
    /\ last' = Silent("addSystem", <<system>>, Void)
    /\ UNCHANGED <<isRunning, frameCount, rafId, requested, awaiting, rafCount, notLoopVars>>

removeSystem(system) ==
    /\ awaiting = EmptyObj
    /\ systems' = SelectSeq(systems, LAMBDA x : x # system)
    /\ last' = Silent("removeSystem", <<system>>, Void)
    /\ UNCHANGED <<isRunning, frameCount, rafId, requested, awaiting, rafCount, notLoopVars>>

start ==
    /\ IF isRunning
       THEN UNCHANGED <<isRunning, frameCount, rafId, requested, rafCount>>
       ELSE /\ isRunning' = TRUE
            /\ frameCount' = 0
            /\ RequestFrame(requested)
    /\ last' = Silent("start", <<isRunning>>, Void)
    /\ UNCHANGED <<systems, awaiting, notLoopVars>>

\* cancelAnimationFrame(this.rafId) takes the request out if it is still pending
stop ==
    /\ isRunning' = FALSE
    /\ requested' = requested \ {rafId}
    /\ last' = Silent("stop", <<>>, Void)
    /\ UNCHANGED <<systems, frameCount, rafId, awaiting, rafCount, notLoopVars>>

\* the callback of request id, up to its first await or to its end
gameLoop(id, due) ==
    /\ id \in requested
    /\ IF ~isRunning
       THEN /\ requested' = requested \ {id}
            /\ UNCHANGED <<frameCount, rafId, awaiting, rafCount>>
       ELSE IF due /\ systems # <<>>
       THEN /\ requested' = requested \ {id}
            /\ awaiting' = MapSet(awaiting, id, 1)
            /\ UNCHANGED <<frameCount, rafId, rafCount>>
       ELSE /\ frameCount' = IF due THEN frameCount + 1 ELSE frameCount
            /\ RequestFrame(requested \ {id})
            /\ UNCHANGED awaiting
    /\ last' = Silent("gameLoop", <<id, due>>, Void)
    /\ UNCHANGED <<systems, isRunning, notLoopVars>>

\* the gameLoop call of request id after `await system(..)` of the system it
\* had called: the next system, or the rest of the callback
resume(id) ==
    /\ id \in DOMAIN awaiting
    /\ IF awaiting[id] < Len(systems)
       THEN /\ awaiting' = [awaiting EXCEPT ![id] = @ + 1]
            /\ UNCHANGED <<frameCount, rafId, requested, rafCount>>
       ELSE /\ awaiting' = MapDelete(awaiting, id)
            /\ frameCount' = frameCount + 1
            /\ RequestFrame(requested)
    /\ last' = Silent("resume", <<id>>, Void)
    /\ UNCHANGED <<systems, isRunning, notLoopVars>>

----------------------------------------------------------------------------
(* Inputs and bounds of the ConnectionManager specification *)

\* recordInteraction calls in one run
MaxInteractions == 2

\* the directed pairs the calls are made on
Pairs == {<<"a", "b">>, <<"b", "a">>}

\* Date.now() at connect
Clock == {1}

\* interaction.timestamp
Timestamps == {2, 3}

\* initialStrength arguments of connect: {} and partial objects, in and out of range
InitialStrengths ==
    {EmptyObj,
     [value |-> 95, trust |-> 95, familiarity |-> 95],
     [value |-> 150, trust |-> -20]}

\* interaction.impact arguments
Impacts ==
    {[trust |-> 10, familiarity |-> 10, connectionStrength |-> 20],
     [trust |-> -30, familiarity |-> -10, connectionStrength |-> 20],
     [trust |-> -30, familiarity |-> 40, connectionStrength |-> -20],
     [trust |-> 30, familiarity |-> 0, connectionStrength |-> -20],
     [trust |-> 10, familiarity |-> 10, connectionStrength |-> 0]}

Interactions ==
    {[type |-> "chat", sourceId |-> p[1], targetId |-> p[2],
      timestamp |-> ts, content |-> "hi", impact |-> im] :
        p \in Pairs, ts \in Timestamps, im \in Impacts}

RECURSIVE SumLen(_, _)
SumLen(m, keys) ==
    IF keys = {} THEN 0
    ELSE LET k == CHOOSE x \in keys : TRUE IN Len(m[k]) + SumLen(m, keys \ {k})

Recorded == SumLen(interactionHistory, DOMAIN interactionHistory)

\* the state after the three constructors
Init ==
    /\ InitStore
    /\ emotionalMemory = EmptyObj
    /\ connections = EmptyObj
    /\ interactionHistory = EmptyObj
    /\ rules = <<"positive", "negative">>
    /\ listeners = [t \in Topics |-> <<>>]
    /\ last = Silent("new", <<>>, Void)
    /\ InitNet
    /\ InitLoop

Connect == \E p \in Pairs, i \in InitialStrengths, now \in Clock :
               connect(p[1], p[2], i, now)

Disconnect == \E p \in Pairs : disconnect(p[1], p[2])

RecordInteraction == \E i \in Interactions : Recorded < MaxInteractions /\ recordInteraction(i)

NextConn == Connect \/ Disconnect \/ RecordInteraction

SpecConn == Init /\ [][NextConn]_vars

----------------------------------------------------------------------------
(* Inputs of the pair specification: agent ids that contain '-', a pair, its *)
(* reverse and a third pair                                                  *)

HyphenPairs == {<<"a", "b-c">>, <<"a-b", "c">>, <<"c", "a-b">>}

PairInteractions ==
    {[type |-> "chat", sourceId |-> p[1], targetId |-> p[2],
      timestamp |-> 2, content |-> "hi",
      impact |-> [trust |-> 10, familiarity |-> 10, connectionStrength |-> 20]] :
        p \in HyphenPairs}

PairConnect == \E p \in HyphenPairs, now \in Clock : connect(p[1], p[2], EmptyObj, now)

PairDisconnect == \E p \in HyphenPairs : disconnect(p[1], p[2])

PairRecord == \E i \in PairInteractions : Recorded < MaxInteractions /\ recordInteraction(i)

NextPairs == PairConnect \/ PairDisconnect \/ PairRecord

SpecPairs == Init /\ [][NextPairs]_vars

----------------------------------------------------------------------------
(* Inputs and bounds of the rule specification: rules added to the two      *)
(* defaults, in either order and more than once, and interactions that one, *)
(* several or none of them match                                            *)

\* addRule calls in one run
MaxAddedRules == 2

\* the rules the caller adds: one matches every chat and doubles the value,
\* one matches what the positive rule matches and sets trust from the value
CustomRules == {"doubling", "levelling"}

RuleInteractions ==
    {[type |-> "chat", sourceId |-> "a", targetId |-> "b",
      timestamp |-> 2, content |-> "hi", impact |-> im] :
        im \in {[trust |-> 10, familiarity |-> 10, connectionStrength |-> 20],
                [trust |-> -30, familiarity |-> 40, connectionStrength |-> -20],
                [trust |-> 10, familiarity |-> 10, connectionStrength |-> 0]}}

AddRule == \E r \in CustomRules : Len(rules) < 2 + MaxAddedRules /\ addRule(r)

RuleConnect == \E now \in Clock : connect("a", "b", EmptyObj, now)

RuleRecord == \E i \in RuleInteractions : Recorded < MaxInteractions /\ recordInteraction(i)

NextRules == AddRule \/ RuleConnect \/ RuleRecord

SpecRules == Init /\ [][NextRules]_vars

----------------------------------------------------------------------------
(* Inputs of the NetworkManager specification *)

\* type and data arguments of send()
MessageTypes == {"chat"}
MessageData == {"x", "y"}

NetConnect == networkConnect

NetDisconnect == networkDisconnect

Send == \E t \in MessageTypes, d \in MessageData, now \in Clock : send(t, d, now)

Heartbeat == \E id \in intervals, now \in Clock : heartbeat(id, now)

OnOpen == \E s \in 1..Len(sockets) : onopen(s)

OnClose == \E s \in 1..Len(sockets) : onclose(s)

HandleReconnect == handleReconnect

FlushMessageQueue == \E now \in Clock : flushMessageQueue(now)

NextNet == NetConnect \/ NetDisconnect \/ Send \/ Heartbeat \/ OnOpen \/ OnClose
               \/ HandleReconnect \/ FlushMessageQueue

SpecNet == Init /\ [][NextNet]_vars

\* the loop of flushMessageQueue is not left half-way: every iteration that
\* can be taken is taken
SpecNetLive == SpecNet /\ WF_vars(FlushMessageQueue)

----------------------------------------------------------------------------
(* Inputs of the GameLoop specification *)

SystemNames == {"physics"}

AddSystem == \E sys \in SystemNames : addSystem(sys)

RemoveSystem == \E sys \in SystemNames : removeSystem(sys)

Start == start

Stop == stop

GameLoopFrame == \E id \in requested, due \in BOOLEAN : gameLoop(id, due)

Resume == \E id \in DOMAIN awaiting : resume(id)

NextLoop == AddSystem \/ RemoveSystem \/ Start \/ Stop \/ GameLoopFrame \/ Resume

SpecLoop == Init /\ [][NextLoop]_vars

----------------------------------------------------------------------------
(* Inputs and bounds of the PersonalityStorage specification *)

Agents == {"a", "b"}

\* template arguments of createPersonality
TemplateNames == {NoTemplate, "friendly", "custom", "no-such-template"}

\* the template registered under "custom"; its values are not all in range
CustomTemplate ==
    [baseTraits |-> [sociability |-> 130],
     mood |-> [happiness |-> 120, energy |-> 50, stress |-> 50, dominance |-> -10]]

\* trait arguments of updateTrait
TraitNames == {"sociability", "resilience"}
TraitValues == {-20, 54}

\* moodUpdates arguments of updateMood
MoodUpdates ==
    {[happiness |-> 130, stress |-> -20],
     [energy |-> 54, calm |-> 80]}

CreatePersonality == \E a \in Agents, t \in TemplateNames : createPersonality(a, t)

UpdateTrait == \E a \in Agents, n \in TraitNames, v \in TraitValues, ad \in BOOLEAN :
                   updateTrait(a, n, v, ad)

UpdateMood == \E a \in Agents, u \in MoodUpdates : updateMood(a, u)

AddTemplate == addTemplate("custom", CustomTemplate)

NextStore == CreatePersonality \/ UpdateTrait \/ UpdateMood \/ AddTemplate

SpecStore == Init /\ [][NextStore]_vars

----------------------------------------------------------------------------
(* Inputs of the decay specification: one agent, created plain or from a    *)
(* template, whose mood and adaptive traits the driver sets and then decays *)

DecayAgents == {"a"}
DecayTemplates == {"friendly", "custom"}

\* adaptive values the driver sets
AdaptiveValues == {80}

DecayMoodUpdates == {[happiness |-> 54]}

DecayCreate == \E a \in DecayAgents, t \in DecayTemplates : createPersonality(a, t)

DecayUpdateMood == \E a \in DecayAgents, u \in DecayMoodUpdates : updateMood(a, u)

AdaptTrait == \E a \in DecayAgents, n \in TraitNames, v \in AdaptiveValues : adaptTrait(a, n, v)

DecayTick == \E a \in DecayAgents : decayTick(a)

NextDecay == DecayCreate \/ DecayUpdateMood \/ AddTemplate \/ AdaptTrait \/ DecayTick

SpecDecay == Init /\ [][NextDecay]_vars

----------------------------------------------------------------------------
(* Inputs of the mutator specification: the record of "a", created plain or *)
(* from a template and given an adaptive trait by its holder, and no record *)
(* of "b"; updateTrait and updateMood are called on both ids                *)

MutTemplates == {NoTemplate, "friendly"}

\* value arguments of updateTrait: below, in and above [0,1]
MutTraitValues == {-20, 54, 130}

MutCreate == \E t \in MutTemplates : createPersonality("a", t)

MutAdaptTrait == \E v \in AdaptiveValues : adaptTrait("a", "sociability", v)

MutUpdateTrait == \E a \in Agents, n \in TraitNames, v \in MutTraitValues, ad \in BOOLEAN :
                      updateTrait(a, n, v, ad)

\* moodUpdates arguments: mood fields, a name no object has, an inherited name
MutMoodUpdates == MoodUpdates \cup {[dominance |-> 54, toString |-> 80]}

MutUpdateMood == \E a \in Agents, u \in MutMoodUpdates : updateMood(a, u)

NextMut == MutCreate \/ MutAdaptTrait \/ MutUpdateTrait \/ MutUpdateMood

SpecMut == Init /\ [][NextMut]_vars

----------------------------------------------------------------------------
(* Inputs and bounds of the PersonalityUpdater specification *)

\* a template with relationships, so that records with relationships exist
BondedTemplate == [relationships |-> [b |-> 98, x |-> -99]]

Events ==
    {[type |-> "socialInteraction", intensity |-> One, valence |-> 60, source |-> "b"],
     [type |-> "challenge", intensity |-> 50, valence |-> -60, source |-> ""],
     [type |-> "learning", intensity |-> One, valence |-> 40, source |-> "a"],
     [type |-> "conflict", intensity |-> One, valence |-> -60, source |-> "x"]}

\* events processed and not yet cleared
MaxEvents == 3

\* limit arguments of getEmotionalMemory
Limits == {<<>>, <<0>>, <<1>>, <<2>>, <<MaxEvents + 1>>}

Remembered == SumLen(emotionalMemory, DOMAIN emotionalMemory)

UpdCreate == createPersonality("a", "bonded") \/ createPersonality("b", NoTemplate)

UpdAddTemplate == addTemplate("bonded", BondedTemplate)

ProcessEvent == \E a \in Agents, e \in Events : Remembered < MaxEvents /\ processEvent(a, e)

GetEmotionalMemory == \E a \in Agents, k \in Limits : getEmotionalMemory(a, k)

ClearEmotionalMemory == \E a \in Agents : clearEmotionalMemory(a)

\* decayPersonality(personality) on a stored record: the call computes its
\* result and writes nothing
DecayPersonality ==
    \E a \in Agents :
        /\ a \in DOMAIN personalities
        /\ last' = Silent("decayPersonality", <<a>>, decayPersonality(getPersonality(a)))
        /\ UNCHANGED <<storeVars, emotionalMemory, connVars, listeners, netVars, loopVars>>

NextUpd == UpdCreate \/ UpdAddTemplate \/ ProcessEvent \/ GetEmotionalMemory
               \/ ClearEmotionalMemory \/ DecayPersonality

SpecUpd == Init /\ [][NextUpd]_vars

----------------------------------------------------------------------------
(* Inputs and bounds of the observer specification: listeners, throwing or  *)
(* not, on every topic, and one call of every method that emits             *)

\* listeners registered in one run
MaxListeners == 2

Registered == SumLen(listeners, Topics)

ObsInteraction ==
    [type |-> "chat", sourceId |-> "a", targetId |-> "b", timestamp |-> 2, content |-> "hi",
     impact |-> [trust |-> 10, familiarity |-> 10, connectionStrength |-> 20]]

On == \E t \in Topics, throws \in BOOLEAN : Registered < MaxListeners /\ on(t, throws)

ObsCreate == createPersonality("a", "friendly")
ObsUpdateTrait == updateTrait("a", "sociability", 54, FALSE)
ObsUpdateMood == updateMood("a", [happiness |-> 54])
ObsConnect == connect("a", "b", EmptyObj, 1)
ObsDisconnect == disconnect("a", "b")
ObsRecord == Recorded < 1 /\ recordInteraction(ObsInteraction)

NextObs == On \/ ObsCreate \/ ObsUpdateTrait \/ ObsUpdateMood
              \/ ObsConnect \/ ObsDisconnect \/ ObsRecord

SpecObs == Init /\ [][NextObs]_vars

----------------------------------------------------------------------------
(* Properties of the ConnectionManager *)

ConnectionsOf ==
    UNION {{connections[s][t] : t \in DOMAIN connections[s]} : s \in DOMAIN connections}

StoredRecords == {View(personalities[a]) : a \in DOMAIN personalities}

In01(v) == 0 <= v /\ v <= One
In11(v) == -One <= v /\ v <= One

\* C1: every stored trait value, mood field, connection trust and connection
\* familiarity is in [0,1], and every connection value and relationship
\* strength is in [-1,1], after any sequence of calls.
C1_RangeInvariant ==
    /\ \A c \in ConnectionsOf : In01(c.trust) /\ In01(c.familiarity) /\ In11(c.value)
    /\ \A p \in StoredRecords :
          /\ \A n \in DOMAIN p.baseTraits : In01(p.baseTraits[n])
          /\ \A n \in DOMAIN p.adaptiveTraits : In01(p.adaptiveTraits[n])
          /\ \A k \in DOMAIN p.mood : In01(p.mood[k])
          /\ \A r \in DOMAIN p.relationships : In11(p.relationships[r])

\* the step is a recordInteraction call on a pair that has a connection
RecordsOnConnection ==
    /\ last'.op = "recordInteraction"
    /\ hasConnection(last'.arg.sourceId, last'.arg.targetId)

Before == connections[last'.arg.sourceId][last'.arg.targetId]
After == connections'[last'.arg.sourceId][last'.arg.targetId]

\* C3: an interaction with impact.connectionStrength > 0 on an existing
\* connection leaves trust, value and familiarity each at least what it was
\* and at most 1, whatever impact.trust and impact.familiarity are.
C3_PositiveNeverDecreases ==
    [][(RecordsOnConnection /\ last'.arg.impact.connectionStrength > 0) =>
          /\ Before.trust <= After.trust /\ After.trust <= One
          /\ Before.value <= After.value /\ After.value <= One
          /\ Before.familiarity <= After.familiarity /\ After.familiarity <= One]_vars

\* C4: an interaction with impact.connectionStrength < 0 on an existing
\* connection leaves trust at most what it was and at least 0, value at most
\* what it was and at least -1, and familiarity unchanged.
C4_NegativeNeverIncreases ==
    [][(RecordsOnConnection /\ last'.arg.impact.connectionStrength < 0) =>
          /\ After.trust <= Before.trust /\ 0 <= After.trust
          /\ After.value <= Before.value /\ -One <= After.value
          /\ After.familiarity = Before.familiarity]_vars

\* the history of the pair the last call was made on
PairKey(interaction) == interaction.sourceId \o "-" \o interaction.targetId

HistoryOf(history, key) == IF key \in DOMAIN history THEN history[key] ELSE <<>>

\* C5: recordInteraction on a pair that has no connection raises no error,
\* creates no connection, changes no connection, emits no connectionUpdated
\* and appends the interaction to the history of the pair.
C5_NoConnectionOnlyLogged ==
    [][(/\ last'.op = "recordInteraction"
        /\ ~hasConnection(last'.arg.sourceId, last'.arg.targetId)) =>
          /\ ~last'.threw
          /\ connections' = connections
          /\ last'.emitted = <<>>
          /\ HistoryOf(interactionHistory', PairKey(last'.arg))
                = Append(HistoryOf(interactionHistory, PairKey(last'.arg)), last'.arg)]_vars

\* an interaction was recorded on a pair that was connected and then disconnected
C5_Witness ==
    /\ last.op = "recordInteraction"
    /\ last.emitted = <<>>
    /\ last.arg.sourceId \in DOMAIN connections
    /\ last.arg.targetId \notin DOMAIN connections[last.arg.sourceId]
    /\ Len(HistoryOf(interactionHistory, PairKey(last.arg))) = MaxInteractions

----------------------------------------------------------------------------
(* Properties of the PersonalityStorage *)

\* C2: createPersonality with a registered template returns the values
\* registered for it (the built-in values for 'friendly') and no adaptive
\* traits, and with any other template argument the default mood and no base
\* traits, whatever calls were made before.
C2_TemplateValues ==
    (last.op = "createPersonality" /\ ~last.threw) =>
        /\ last.result.adaptiveTraits = EmptyObj
        /\ IF last.arg[2] = "friendly"
           THEN /\ last.result.baseTraits = FriendlyTemplate.baseTraits
                /\ last.result.mood = FriendlyTemplate.mood
           ELSE IF last.arg[2] = "custom" /\ "custom" \in DOMAIN templates
           THEN /\ last.result.baseTraits = CustomTemplate.baseTraits
                /\ last.result.mood = CustomTemplate.mood
           ELSE /\ last.result.baseTraits = EmptyObj
                /\ last.result.mood = DefaultMood

----------------------------------------------------------------------------
(* Properties of the observers *)

\* C7: when a call emits on a topic, every listener of the topic is invoked
\* and the call returns to its caller, also when one of the listeners throws.
C7_ObserversIsolated ==
    last.emitted # <<>> =>
        /\ ~last.threw
        /\ last.invoked = Len(listeners[last.emitted[1]])

----------------------------------------------------------------------------
(* Properties of the PersonalityUpdater *)

\* C8: getEmotionalMemory(id, k) returns the last min(k, n) events of the log
\* of length n, in order, for every k >= 0, and the whole log without a limit.
C8_MemoryTail ==
    last.op = "getEmotionalMemory" =>
        LET log == HistoryOf(emotionalMemory, last.arg[1])
            n == Len(log)
            limit == last.arg[2]
        IN IF limit = <<>>
           THEN last.result = log
           ELSE last.result = SubSeq(log, n - Min(limit[1], n) + 1, n)

\* C9: traitUpdates has exactly one entry, chosen by the event type:
\* sociability = valence*0.05 for socialInteraction, resilience =
\* intensity*0.05 for challenge, curiosity = valence*0.05 for learning; it is
\* empty for every other type, and no error is raised.
C9_TraitUpdatesByType ==
    last.op = "processEvent" =>
        LET event == last.arg[2]
            updates == last.result.traitUpdates
        IN /\ ~last.threw
           /\ CASE event.type = "socialInteraction" ->
                      /\ DOMAIN updates = {"sociability"}
                      /\ updates["sociability"] = Mul(event.valence, 5)
                [] event.type = "challenge" ->
                      /\ DOMAIN updates = {"resilience"}
                      /\ updates["resilience"] = Mul(event.intensity, 5)
                [] event.type = "learning" ->
                      /\ DOMAIN updates = {"curiosity"}
                      /\ updates["curiosity"] = Mul(event.valence, 5)
                [] OTHER -> DOMAIN updates = {}

\* the spec's example (valence 0.6 gives sociability 0.03) and a challenge
C9_Witness ==
    /\ last.op = "processEvent"
    /\ last.arg[2].type = "socialInteraction"
    /\ last.arg[2].valence = 60
    /\ last.result.traitUpdates = [n \in {"sociability"} |-> 3]

\* C10: relationshipUpdates has an entry only when event.source is set and is
\* not the personality's id; the entry is keyed by event.source and is the
\* current relationship (0 if none) plus valence*intensity*0.05, clamped to
\* [-1,1]; otherwise relationshipUpdates is empty.
C10_RelationshipUpdate ==
    last.op = "processEvent" =>
        LET id == last.arg[1]
            event == last.arg[2]
            updates == last.result.relationshipUpdates
            relationships == personalities[id].relationships
            current == IF event.source \in DOMAIN relationships
                       THEN relationships[event.source]
                       ELSE 0
            sum == current + Mul(Mul(event.valence, event.intensity), 5)
        IN IF event.source # "" /\ event.source # id
           THEN /\ DOMAIN updates = {event.source}
                /\ updates[event.source] = IF sum > One THEN One
                                           ELSE IF sum < -One THEN -One ELSE sum
           ELSE DOMAIN updates = {}

\* an event from b on a record whose relationship to b is 0.98: 0.98 + 0.03
\* is clamped to 1
C10_Witness ==
    /\ last.op = "processEvent"
    /\ last.arg[1] = "a"
    /\ last.arg[2].source = "b"
    /\ "b" \in DOMAIN personalities["a"].relationships
    /\ personalities["a"].relationships["b"] = 98
    /\ last.result.relationshipUpdates = [n \in {"b"} |-> One]

----------------------------------------------------------------------------
(* Properties of the decay *)

Ticked == last'.op = "decayTick" /\ ~last'.threw

RecordBefore == View(personalities[last'.arg[1]])
RecordAfter == ViewIn(heap', personalities'[last'.arg[1]])

\* the traits decayPersonality pulls towards their base trait
Decaying == DOMAIN RecordBefore.adaptiveTraits \cap DOMAIN RecordBefore.baseTraits

Distance(v, target) == Abs(v - target)

SameSide(before, after, target) ==
    /\ before >= target => after >= target
    /\ before <= target => after <= target

Closer(before, after, target) ==
    Distance(before, target) > 0 => Distance(after, target) < Distance(before, target)

NotFarther(before, after, target) == Distance(after, target) <= Distance(before, target)

----------------------------------------------------------------------------
(* Properties of the PersonalityStorage: overwriting and the mutators *)

\* the values a record built now from the template argument is to carry: the
\* values registered under the name, the defaults without a registered name
FreshRecord(agentId, template) ==
    LET registered == IF template = "friendly" THEN FriendlyTemplate
                      ELSE IF template = "custom" /\ "custom" \in DOMAIN templates
                      THEN CustomTemplate
                      ELSE [baseTraits |-> EmptyObj, mood |-> DefaultMood]
    IN [id |-> agentId,
        baseTraits |-> registered.baseTraits,
        adaptiveTraits |-> EmptyObj,
        mood |-> registered.mood,
        relationships |-> EmptyObj]

\* the step is a createPersonality call on an agentId that has a record
Overwrites == last'.op = "createPersonality" /\ last'.arg[1] \in DOMAIN personalities

\* C11: createPersonality on an agentId that has a record raises no error and
\* replaces the record by the freshly built one (default or template values,
\* no adaptive traits, no relationships), nothing of the prior record's
\* mutated state surviving, and changes no other agent's record.
C11_OverwriteIsFresh ==
    [][Overwrites =>
          /\ ~last'.threw
          /\ ViewIn(heap', personalities'[last'.arg[1]])
                = FreshRecord(last'.arg[1], last'.arg[2])
          /\ \A b \in DOMAIN personalities \ {last'.arg[1]} :
                /\ b \in DOMAIN personalities'
                /\ ViewIn(heap', personalities'[b]) = View(personalities[b])]_vars

\* clamp(0, 1, v) as the specification writes it
Clamped(v) == IF v < 0 THEN 0 ELSE IF v > One THEN One ELSE v

\* C12: updateTrait on a missing agent, or on a trait that is not in the
\* selected map, raises no error, changes no personality, creates no trait and
\* emits nothing; on a trait that is in the selected map it sets exactly that
\* trait of that agent to clamp(0,1,value) and emits one traitUpdated.
C12_UpdateTrait ==
    [][last'.op = "updateTrait" =>
          LET agentId == last'.arg[1]
              traitName == last'.arg[2]
              value == last'.arg[3]
              isAdaptive == last'.arg[4]
              exists == agentId \in DOMAIN personalities
              before == View(personalities[agentId])
              selected == IF isAdaptive THEN before.adaptiveTraits ELSE before.baseTraits
          IN IF exists /\ traitName \in DOMAIN selected
             THEN /\ last'.emitted = <<"traitUpdated">>
                  /\ ViewIn(heap', personalities'[agentId]) =
                        IF isAdaptive
                        THEN [before EXCEPT !.adaptiveTraits[traitName] = Clamped(value)]
                        ELSE [before EXCEPT !.baseTraits[traitName] = Clamped(value)]
             ELSE /\ ~last'.threw
                  /\ last'.emitted = <<>>
                  /\ personalities' = personalities
                  /\ heap' = heap]_vars

\* the adaptive trait of a record was set to a clamped value while the base
\* trait of the same name kept the template value
C12_Witness ==
    /\ last.op = "updateTrait"
    /\ last.arg = <<"a", "sociability", 130, TRUE>>
    /\ last.emitted = <<"traitUpdated">>
    /\ View(personalities["a"]).adaptiveTraits["sociability"] = One
    /\ View(personalities["a"]).baseTraits["sociability"] = 90

MoodFields == {"happiness", "energy", "stress", "dominance"}

\* C13: updateMood on an agent that has a record sets each of the four mood
\* fields present in the updates to clamp(0,1,value), leaves the other mood
\* fields as they were, ignores every other key (the mood gets no new field)
\* and emits moodUpdated; on an unknown agent it changes and emits nothing.
C13_UpdateMood ==
    [][last'.op = "updateMood" =>
          LET agentId == last'.arg[1]
              updates == last'.arg[2]
              before == View(personalities[agentId])
          IN IF agentId \in DOMAIN personalities
             THEN /\ last'.emitted = <<"moodUpdated">>
                  /\ ViewIn(heap', personalities'[agentId]) =
                        [before EXCEPT !.mood =
                            [key \in DOMAIN before.mood |->
                                IF key \in MoodFields \cap DOMAIN updates
                                THEN Clamped(updates[key])
                                ELSE before.mood[key]]]
             ELSE /\ ~last'.threw
                  /\ last'.emitted = <<>>
                  /\ personalities' = personalities
                  /\ heap' = heap]_vars

----------------------------------------------------------------------------
(* Properties of the PersonalityUpdater: what the calls write *)

\* C14: processEvent and decayPersonality leave the Personality given to them
\* as it was (id, base traits, adaptive traits, mood, relationships);
\* processEvent changes nothing but the emotional-memory log of
\* personality.id, and decayPersonality changes nothing at all.
C14_UpdaterWritesOnlyMemory ==
    [][last'.op \in {"processEvent", "decayPersonality"} =>
          LET id == last'.arg[1]
          IN /\ ViewIn(heap', personalities'[id]) = View(personalities[id])
             /\ personalities' = personalities
             /\ heap' = heap
             /\ templates' = templates
             /\ connections' = connections
             /\ interactionHistory' = interactionHistory
             /\ rules' = rules
             /\ listeners' = listeners
             /\ IF last'.op = "processEvent"
                THEN \A k \in (DOMAIN emotionalMemory \cup DOMAIN emotionalMemory') \ {id} :
                        HistoryOf(emotionalMemory', k) = HistoryOf(emotionalMemory, k)
                ELSE emotionalMemory' = emotionalMemory]_vars

\* decayPersonality was called on a record after an event from "b" had been
\* processed for it, and the record still carries the relationship it had
C14_Witness ==
    /\ last.op = "decayPersonality"
    /\ last.arg[1] = "a"
    /\ HistoryOf(emotionalMemory, "a") # <<>>
    /\ HistoryOf(emotionalMemory, "a")[1].source = "b"
    /\ View(personalities["a"]).relationships = BondedTemplate.relationships

\* C20: the emotional memory is an append-only log per agent: processEvent
\* appends the event once to the end of the log of personality.id and to no
\* other log, clearEmotionalMemory(id) empties the log of id and no other, no
\* other call changes a log, and getEmotionalMemory(id) returns the log of id.
C20_MemoryLog ==
    [][/\ \A k \in DOMAIN emotionalMemory \cup DOMAIN emotionalMemory' \cup Agents :
            LET before == HistoryOf(emotionalMemory, k)
                after == HistoryOf(emotionalMemory', k)
            IN IF last'.op = "processEvent" /\ k = last'.arg[1]
               THEN after = Append(before, last'.arg[2])
               ELSE IF last'.op = "clearEmotionalMemory" /\ k = last'.arg[1]
               THEN after = <<>>
               ELSE after = before
       /\ (last'.op = "getEmotionalMemory" /\ last'.arg[2] = <<>>) =>
             last'.result = HistoryOf(emotionalMemory', last'.arg[1])]_vars

\* the log of "a" was cleared while "b" had a log of two events, the second
\* processed after the first
C20_Witness ==
    /\ last.op = "clearEmotionalMemory"
    /\ last.arg = <<"a">>
    /\ HistoryOf(emotionalMemory, "a") = <<>>
    /\ Len(HistoryOf(emotionalMemory, "b")) = 2
    /\ HistoryOf(emotionalMemory, "b")[1].type = "challenge"
    /\ HistoryOf(emotionalMemory, "b")[2].type = "conflict"

----------------------------------------------------------------------------
(* Properties of the ConnectionManager: lifecycle and frame *)

\* the connection records as a reader sees them: (source, target, record)
Links(conns) ==
    UNION {{<<s, t, conns[s][t]>> : t \in DOMAIN conns[s]} : s \in DOMAIN conns}

HasLink(conns, s, t) == s \in DOMAIN conns /\ t \in DOMAIN conns[s]

C18_UnmatchedOnlyStamps ==
    [][RecordsOnConnection =>
          /\ After.lastInteraction = last'.arg.timestamp
          /\ last'.arg.impact.connectionStrength = 0 =>
                /\ ~last'.threw
                /\ After.value = Before.value
                /\ After.trust = Before.trust
                /\ After.familiarity = Before.familiarity]_vars

\* an interaction without connection strength, later than the one before it,
\* was recorded on a connection that had moved off its initial values
C18_Witness ==
    /\ last.op = "recordInteraction"
    /\ last.emitted = <<"connectionUpdated">>
    /\ last.arg.impact.connectionStrength = 0
    /\ last.arg.impact.trust # 0
    /\ last.arg.timestamp = 3
    /\ Len(HistoryOf(interactionHistory, PairKey(last.arg))) = 2
    /\ HistoryOf(interactionHistory, PairKey(last.arg))[1].timestamp = 2
    /\ HasLink(connections, last.arg.sourceId, last.arg.targetId)
    /\ connections[last.arg.sourceId][last.arg.targetId].lastInteraction = 3
    /\ connections[last.arg.sourceId][last.arg.targetId].value = 20

\* the ordered pair a ConnectionManager call was made on
CallPair ==
    IF last'.op = "recordInteraction"
    THEN <<last'.arg.sourceId, last'.arg.targetId>>
    ELSE <<last'.arg[1], last'.arg[2]>>

\* the record of the pair, when it has one
LinkOf(conns, pair) == {l \in Links(conns) : l[1] = pair[1] /\ l[2] = pair[2]}

\* C16: connections are directed and independent: connect(A,B),
\* disconnect(A,B) and recordInteraction from A to B never create, remove or
\* change the record of (B,A) or of any pair other than (A,B).
C16_DirectedIndependent ==
    [][last'.op \in {"connect", "disconnect", "recordInteraction"} =>
          \A pair \in HyphenPairs \ {CallPair} :
              LinkOf(connections', pair) = LinkOf(connections, pair)]_vars

\* (a-b, c) was disconnected while its reverse (c, a-b) and the pair
\* (a, b-c) keep records that interactions have moved
C16_Witness ==
    /\ last.op = "disconnect"
    /\ last.arg = <<"a-b", "c">>
    /\ ~HasLink(connections, "a-b", "c")
    /\ HasLink(connections, "c", "a-b")
    /\ connections["c"]["a-b"].value = 20
    /\ HasLink(connections, "a", "b-c")
    /\ connections["a"]["b-c"].value = 20

\* C19: the history of the ordered pair (s,t) holds exactly the interactions
\* recorded with sourceId = s and targetId = t, in call order: a
\* recordInteraction call appends its interaction to the history of its own
\* pair and leaves the history of every other ordered pair as it was, and no
\* other call changes a history, also for ids that contain '-'.
C19_HistoryPerPair ==
    [][\A pair \in HyphenPairs :
          LET before == HistoryOf(interactionHistory, HistoryKey(pair[1], pair[2]))
              after == HistoryOf(interactionHistory', HistoryKey(pair[1], pair[2]))
          IN IF last'.op = "recordInteraction" /\ pair = CallPair
             THEN after = Append(before, last'.arg)
             ELSE after = before]_vars

\* the connection after the first n rules of the list had their turn, each
\* matching rule computing its impact from what the rules before it left
RECURSIVE FoldedUpTo(_, _, _)
FoldedUpTo(n, interaction, connection) ==
    IF n = 0 THEN connection
    ELSE LET sofar == FoldedUpTo(n - 1, interaction, connection)
         IN IF RuleCondition(rules[n], interaction)
            THEN Assign(sofar, RuleImpact(rules[n], interaction, sofar))
            ELSE sofar

\* C15: recordInteraction applies every rule whose condition holds, the two
\* defaults and the added ones, in the order they were added, each on the
\* connection as the earlier matching rules left it: the connection
\* afterwards is the left-to-right fold of the matching rules.
C15_AllMatchingRulesInOrder ==
    [][RecordsOnConnection =>
          LET folded == FoldedUpTo(Len(rules), last'.arg, Before)
          IN /\ After.value = folded.value
             /\ After.trust = folded.trust
             /\ After.familiarity = folded.familiarity]_vars

\* with the rules positive, negative, doubling, levelling a positive
\* interaction on a fresh connection gave value (0 + 0.2) * 2 and trust set
\* from that value: three rules matched and each saw the work of the others
C15_Witness ==
    /\ last.op = "recordInteraction"
    /\ last.emitted = <<"connectionUpdated">>
    /\ last.arg.impact.connectionStrength = 20
    /\ rules = <<"positive", "negative", "doubling", "levelling">>
    /\ HasLink(connections, "a", "b")
    /\ connections["a"]["b"].value = 40
    /\ connections["a"]["b"].trust = 40
    /\ connections["a"]["b"].familiarity = 0

----------------------------------------------------------------------------
(* Properties of decayPersonality's result *)

\* the deltas of the mood fields and of the traits in names, as the
\* specification gives them: 0.1 of the way to the midpoint, to the base
DeltasFor(names, result, personality) ==
    /\ \A n \in names :
          result.traitUpdates[n] =
              Mul(personality.baseTraits[n] - personality.adaptiveTraits[n], 10)
    /\ \A k \in MoodFields :
          /\ k \in DOMAIN result.moodUpdates
          /\ result.moodUpdates[k] = Mul(50 - personality.mood[k], 10)
    /\ result.relationshipUpdates = EmptyObj

\* C21: decayPersonality returns a traitUpdates entry for every adaptive
\* trait, equal to (base value - adaptive value) * 0.1, a moodUpdates entry
\* for each of the four mood fields, equal to (0.5 - value) * 0.1, and empty
\* relationshipUpdates.
C21_DeltaForEveryAdaptiveTrait ==
    [][Ticked =>
          /\ DOMAIN last'.result.traitUpdates = DOMAIN RecordBefore.adaptiveTraits
          /\ DeltasFor(DOMAIN RecordBefore.adaptiveTraits, last'.result, RecordBefore)]_vars

\* C21, amended: decayPersonality returns a traitUpdates entry for exactly
\* the adaptive traits that have a base trait of the same name, equal to
\* (base value - adaptive value) * 0.1, and none for an adaptive trait
\* without one; a moodUpdates entry for each of the four mood fields, equal
\* to (0.5 - value) * 0.1; and empty relationshipUpdates.
C21_DeltaForTraitsWithBase ==
    [][Ticked =>
          /\ DOMAIN last'.result.traitUpdates = Decaying
          /\ DeltasFor(Decaying, last'.result, RecordBefore)]_vars

\* the result for a record with the adaptive traits sociability, which has
\* a base trait, and resilience, which has none
C21_Witness ==
    /\ last.op = "decayTick"
    /\ ~last.threw
    /\ DOMAIN personalities[last.arg[1]].adaptiveTraits = {"sociability", "resilience"}
    /\ DOMAIN personalities[last.arg[1]].baseTraits \cap {"sociability", "resilience"}
          = {"sociability"}
    /\ DOMAIN last.result.traitUpdates = {"sociability"}
    /\ last.result.traitUpdates["sociability"] # 0
    /\ last.result.moodUpdates["happiness"] # 0

----------------------------------------------------------------------------
(* Isolation of the records of a PersonalityStorage *)

\* C22: for distinct agent ids A and B of one storage, created with or
\* without templates in any order, updateTrait(A, ..) and updateMood(A, ..)
\* change no trait value and no mood field of the record of B.
C22_AgentIsolation ==
    [][last'.op \in {"updateTrait", "updateMood"} =>
          \A b \in DOMAIN personalities \ {last'.arg[1]} :
              LET before == View(personalities[b])
                  after == ViewIn(heap', personalities'[b])
              IN /\ after.baseTraits = before.baseTraits
                 /\ after.adaptiveTraits = before.adaptiveTraits
                 /\ after.mood = before.mood]_vars

----------------------------------------------------------------------------
(* Properties of the NetworkManager *)

\* the last entry of the wire carries the type and the data of message
Transmitted(sent, message) ==
    /\ sent # <<>>
    /\ sent[Len(sent)][2].type = message.type
    /\ sent[Len(sent)][2].data = message.data

\* C23: a message passed to send() while the socket is not open is queued;
\* when a socket opens, the queued messages are transmitted in the order
\* they were sent, each once, before any message sent after the open, and
\* the queue is empty after the flush.
C23_QueueFlushedInOrder ==
    [][/\ (last'.op = "send" /\ ~SocketIsOpen) =>
             /\ Len(messageQueue') = Len(messageQueue) + 1
             /\ SubSeq(messageQueue', 1, Len(messageQueue)) = messageQueue
             /\ messageQueue'[Len(messageQueue')].type = last'.arg[1]
             /\ messageQueue'[Len(messageQueue')].data = last'.arg[2]
             /\ wire' = wire
       /\ last'.op = "flushMessageQueue" =>
             /\ Len(wire') = Len(wire) + 1
             /\ Transmitted(wire', Head(messageQueue))
             /\ messageQueue' = Tail(messageQueue)
       /\ flushing => last'.op = "flushMessageQueue"
       /\ (flushing /\ ~flushing') => messageQueue' = <<>>]_vars

\* C24: reconnectAttempts never exceeds config.reconnectAttempts and is 0
\* after every onopen; between two opens handleReconnect makes at most
\* config.reconnectAttempts connect() calls, and none beyond that budget.
C24_ReconnectBudget ==
    /\ reconnectAttempts <= config.reconnectAttempts
    /\ last.op = "onopen" => reconnectAttempts = 0
    /\ reconnects <= config.reconnectAttempts

\* the caller has called disconnect() and not connect() since
CallerDisconnected == socket = 0 /\ sockets # <<>>

\* C25: after disconnect(), and until the caller calls connect() again, the
\* manager creates no WebSocket and no heartbeat interval is running, also
\* when the onclose of the closed socket has run.
C25_DisconnectStays ==
    [][/\ CallerDisconnected' => intervals' = {}
       /\ (CallerDisconnected /\ last'.op # "NetworkManager.connect") =>
             Len(sockets') = Len(sockets)]_vars

\* C26: flushMessageQueue terminates: whenever an onopen handler is in the
\* flush loop, also with this.socket no longer the socket that opened, the
\* loop is left after finitely many iterations.
C26_FlushTerminates == flushing ~> ~flushing

----------------------------------------------------------------------------
(* Properties of the GameLoop *)

\* C27: start() while running changes nothing, and at no time, whatever the
\* order of start(), stop() and the frame callbacks, is there more than one
\* gameLoop callback scheduled or executing.
C27_OneCallbackChain ==
    [][/\ (last'.op = "start" /\ isRunning) => loopVars' = loopVars
       /\ Cardinality(requested') + Cardinality(DOMAIN awaiting') <= 1]_vars

====
